---------------------------- MODULE Spec2Model ----------------------------
(***************************************************************************)
(* A model of swiftline: the `json select` pipeline (get_input, parse_json,*)
(* get_by_path) of src/src/commands/json_select.rs and the `http get`      *)
(* command of src/src/commands/http_get.rs.                                *)
(*                                                                         *)
(* Strings that the code inspects character by character (paths, header    *)
(* strings) are sequences of one-character strings.                        *)
(***************************************************************************)
EXTENDS Integers, Sequences, FiniteSets, TLC

VARIABLES
    \* ---- get_by_path (json_select.rs:85-108)
    value,      \* the parsed document `value: &Value`
    path,       \* the path string `path: &str`
    segs,       \* the segments `path.split('.')` has still to yield
    nseg,       \* how many segments the loop has taken from the iterator
    cur,        \* `cur`: a reference into `value`, kept as the steps from the root
    pc,         \* "loop" | "done" | "panic" | "idle"
    result,     \* the Option<&Value> returned
    \* ---- parse_json (json_select.rs:57-79)
    input,      \* `input: &str`
    use_json5,  \* `use_json5: bool`
    ppc,        \* "strict" | "json5" | "done" | "idle"
    strictCalls,\* calls of serde_json::from_str so far
    json5Calls, \* calls of json5::from_str so far
    parsed,     \* the Result<Value> returned
    \* ---- get_input (json_select.rs:13-26)
    text,       \* `text: &Option<String>`
    file,       \* `file: &Option<PathBuf>`
    disk,       \* what fs::read_to_string finds at the path
    stdin,      \* what standard input holds
    ipc,        \* "start" | "done" | "idle"
    fileReads,  \* calls of fs::read_to_string so far
    stdinReads, \* calls of io::stdin().read_to_string so far
    raw,        \* the Result<String> returned
    \* ---- http_get::run (http_get.rs:52-137)
    url,        \* `url: &str`
    headers,    \* `headers: &[String]`
    timeout_secs, \* `timeout_secs: Option<u64>`
    save,       \* `save: Option<PathBuf>`
    pretty,     \* `pretty: bool`
    hpc,        \* where run is: "url", "headers", "client", "request",
                \* "response", "create", "stream", "body", "done", "failed",
                \* "killed", "idle"
    hi,         \* parse_headers: the index of the next item
    hdrs,       \* parse_headers: `map`, the pairs appended so far
    client,     \* the Client built: its timeout in seconds, 0 before
    pb,         \* the "Requesting..." spinner: "none" | "running" | "cleared"
    sent,       \* requests handed to the network so far
    resp,       \* the response received
    dest,       \* the file at the save path
    created,    \* File::create has succeeded in this run
    stream,     \* `stream`: the chunks of the body still to arrive
    downloaded, \* `downloaded`
    pbar,       \* the download's progress indicator
    out,        \* the lines printed on standard output
    herr,       \* the error run returned, "" while there is none
    \* ---- json_select::run (json_select.rs:111-129) and main (main.rs:14-58)
    tty,        \* standard output is a terminal
    rpc,        \* where run is: "title", "input", "parse", "select", "print",
                \* "returned", "exited", "idle"
    stdout,     \* the lines printed on standard output
    ret,        \* the Result<()> run returned
    exit_code   \* the status the process exited with

pathVars == <<value, path, segs, nseg, cur, pc, result>>
parseVars == <<input, use_json5, ppc, strictCalls, json5Calls, parsed>>
inputVars == <<text, file, disk, stdin, ipc, fileReads, stdinReads, raw>>
httpVars == <<url, headers, timeout_secs, save, pretty, hpc, hi, hdrs, client, pb,
              sent, resp, dest, created, stream, downloaded, pbar, out, herr>>
runVars == <<tty, rpc, stdout, ret, exit_code>>
vars == <<pathVars, parseVars, inputVars, httpVars, runVars>>

(***************************************************************************)
(* serde_json::Value                                                       *)
(***************************************************************************)
JNull == [t |-> "null"]
JBool(b) == [t |-> "bool", b |-> b]
JNum(n) == [t |-> "num", n |-> n]
JStr(s) == [t |-> "str", s |-> s]
JArr(items) == [t |-> "arr", items |-> items]
JObj(m) == [t |-> "obj", m |-> m]

\* A reference `&'a Value` into the document: the steps leading to the node.
FieldStep(k) == [kind |-> "field", key |-> k, idx |-> 0]
IndexStep(i) == [kind |-> "index", key |-> <<>>, idx |-> i]

RECURSIVE Deref(_, _)
Deref(root, ref) ==
    IF ref = <<>> THEN root
    ELSE LET s == Head(ref)
         IN  IF s.kind = "field"
             THEN Deref(root.m[s.key], Tail(ref))
             ELSE Deref(root.items[s.idx + 1], Tail(ref))

None == [tag |-> "none", ref |-> <<>>]
Some(ref) == [tag |-> "some", ref |-> ref]
Panic == [tag |-> "panic", ref |-> <<>>]


(***************************************************************************)
(* String helpers of the Rust standard library used by get_by_path         *)
(***************************************************************************)
\* The position of the first occurrence of character c in s, 0 when absent.
FirstIndex(s, c) ==
    IF \E i \in 1..Len(s) : s[i] = c
    THEN CHOOSE i \in 1..Len(s) : s[i] = c /\ \A j \in 1..(i - 1) : s[j] # c
    ELSE 0

\* str::split('.'): the segments between the dots; "" splits into one empty segment.
RECURSIVE Split(_)
Split(s) ==
    LET i == FirstIndex(s, ".")
    IN  IF i = 0 THEN <<s>>
        ELSE <<SubSeq(s, 1, i - 1)>> \o Split(SubSeq(s, i + 1, Len(s)))

\* str::split_once('['): the text before and after the first '['.
SplitOnce(seg) ==
    LET i == FirstIndex(seg, "[")
    IN  IF i = 0 THEN [found |-> FALSE, name |-> seg, rest |-> <<>>]
        ELSE [found |-> TRUE, name |-> SubSeq(seg, 1, i - 1),
              rest |-> SubSeq(seg, i + 1, Len(seg))]

\* str::ends_with(']')
EndsWithBracket(s) == s # <<>> /\ s[Len(s)] = "]"

DigitChars == <<"0", "1", "2", "3", "4", "5", "6", "7", "8", "9">>
IsDigit(c) == \E d \in DOMAIN DigitChars : DigitChars[d] = c
DigitVal(c) == (CHOOSE d \in DOMAIN DigitChars : DigitChars[d] = c) - 1

RECURSIVE DigitsValue(_, _)
DigitsValue(ds, acc) ==
    IF ds = <<>> THEN acc
    ELSE DigitsValue(Tail(ds), acc * Len(DigitChars) + DigitVal(Head(ds)))

\* A parse that reads a text it cannot parse as 0 (atoi-like).
ParseUsizeLenient(s) ==
    IF s # <<>> /\ \A i \in 1..Len(s) : IsDigit(s[i])
    THEN [ok |-> TRUE, n |-> DigitsValue(s, 0)]
    ELSE [ok |-> TRUE, n |-> 0]

\* <usize as FromStr>::from_str: an optional leading '+', then one or more
\* decimal digits; a '-' is not a sign of an unsigned type.  (The overflow
\* error needs more than 19 digits, which no path of the model has.)
ParseUsize(s) ==
    IF s = <<>> THEN [ok |-> FALSE, n |-> 0]
    ELSE IF Len(s) = 1 /\ s[1] \in {"+", "-"} THEN [ok |-> FALSE, n |-> 0]
    ELSE LET ds == IF s[1] = "+" THEN Tail(s) ELSE s
         IN  IF \A i \in 1..Len(ds) : IsDigit(ds[i])
             THEN [ok |-> TRUE, n |-> DigitsValue(ds, 0)]
             ELSE [ok |-> FALSE, n |-> 0]

(***************************************************************************)
(* serde_json::Value::get, as get_by_path calls it                         *)
(***************************************************************************)
\* cur.get(name): the member `name` of an object, None for any other value.
GetField(root, ref, name) ==
    LET node == Deref(root, ref)
    IN  IF node.t = "obj" /\ name \in DOMAIN node.m
        THEN Some(Append(ref, FieldStep(name)))
        ELSE None

\* An index lookup that is off by one (a 1-based index).
GetIndexOneBased(root, ref, idx) ==
    LET node == Deref(root, ref)
    IN  IF node.t = "arr" /\ idx >= 1 /\ idx <= Len(node.items)
        THEN Some(Append(ref, IndexStep(idx - 1)))
        ELSE None

\* cur.get(idx): the element idx of an array, None for any other value.
GetIndex(root, ref, idx) ==
    LET node == Deref(root, ref)
    IN  IF node.t = "arr" /\ idx < Len(node.items)
        THEN Some(Append(ref, IndexStep(idx)))
        ELSE None

(***************************************************************************)
(* get_by_path, one loop iteration per segment                             *)
(***************************************************************************)
\* `&rest[..rest.len() - 1]`: panics on an empty rest (usize underflow).
DropLast(rest) ==
    IF rest = <<>> THEN Panic ELSE Some(SubSeq(rest, 1, Len(rest) - 1))

\* The slice taken without the `ends_with(']')` guard.
ClosingBracketUnchecked(rest) == FALSE

\* Lines 97-99: the guard in front of the slice.
ClosingBracketMissing(rest) == ~EndsWithBracket(rest)

\* Lines 94-96: the optional field lookup on the prefix of `name[index]`.
PrefixLookup(root, ref, name) ==
    IF name # <<>> THEN GetField(root, ref, name) ELSE Some(ref)

\* Lines 93-102: a segment of the form `name[index]`.
IndexSegment(root, ref, seg) ==
    LET sp == SplitOnce(seg)
        base == PrefixLookup(root, ref, sp.name)
    IN  IF base.tag # "some" THEN None
        ELSE IF ClosingBracketMissing(sp.rest) THEN None
        ELSE LET idxStr == DropLast(sp.rest)
             IN  IF idxStr.tag = "panic" THEN Panic
                 ELSE LET idx == ParseUsize(idxStr.ref)
                      IN  IF ~idx.ok THEN None
                          ELSE GetIndex(root, base.ref, idx.n)

\* A field lookup that skips a segment it cannot resolve.
FieldSegmentSkipping(root, ref, seg) ==
    LET r == GetField(root, ref, seg)
    IN  IF r.tag = "some" THEN r ELSE Some(ref)

\* Lines 103-105: a segment without '['.
FieldSegment(root, ref, seg) == GetField(root, ref, seg)

\* A loop body that ignores empty segments instead of returning None.
SegmentStepSkipEmpty(root, ref, seg) ==
    IF seg = <<>> THEN Some(ref)
    ELSE IF SplitOnce(seg).found THEN IndexSegment(root, ref, seg)
    ELSE FieldSegment(root, ref, seg)

\* Lines 88-105: the body of the loop for one segment.
SegmentStep(root, ref, seg) ==
    IF seg = <<>> THEN None
    ELSE IF SplitOnce(seg).found THEN IndexSegment(root, ref, seg)
    ELSE FieldSegment(root, ref, seg)

\* get_by_path as a function: the loop over the segments.
RECURSIVE WalkSegments(_, _, _)
WalkSegments(root, ref, ss) ==
    IF ss = <<>> THEN Some(ref)
    ELSE LET r == SegmentStep(root, ref, Head(ss))
         IN  IF r.tag = "some" THEN WalkSegments(root, r.ref, Tail(ss)) ELSE r

GetByPath(root, p) == WalkSegments(root, <<>>, Split(p))

(***************************************************************************)
(* Input texts.  A text is a document with white space around it; the      *)
(* documents are the ones below, each with what serde_json::from_str and   *)
(* json5::from_str make of it (both parsers skip surrounding white space). *)
(***************************************************************************)
Ok(v) == [ok |-> TRUE, val |-> v]
Err(e) == [ok |-> FALSE, err |-> e]

ValueAB123 == JObj(<<"a">> :> JObj(<<"b">> :> JArr(<<JNum(1), JNum(2), JNum(3)>>)))

ValueNullField == JObj(<<"a">> :> JNull @@ <<"s">> :> JStr("(null)"))

Documents ==
    [ StrictAB   |-> [src |-> "{\"a\":{\"b\":[1,2,3]}}",
                      strict |-> Ok(ValueAB123), json5 |-> Ok(ValueAB123)],
      StrictNull |-> [src |-> "null",
                      strict |-> Ok(JNull), json5 |-> Ok(JNull)],
      NullField  |-> [src |-> "{\"a\":null,\"s\":\"(null)\"}",
                      strict |-> Ok(ValueNullField), json5 |-> Ok(ValueNullField)],
      StrictStr  |-> [src |-> "\"value\"",
                      strict |-> Ok(JStr("value")), json5 |-> Ok(JStr("value"))],
      BareKeys   |-> [src |-> "{a: {b: [1, 2, 3]}}",
                      strict |-> Err("key must be a string at line 1 column 2"),
                      json5 |-> Ok(ValueAB123)],
      SingleQuote |-> [src |-> "{'a': 'value'}",
                      strict |-> Err("key must be a string at line 1 column 2"),
                      json5 |-> Ok(JObj(<<"a">> :> JStr("value")))],
      TrailingComma |-> [src |-> "[1, 2, 3,]",
                      strict |-> Err("trailing comma at line 1 column 10"),
                      json5 |-> Ok(JArr(<<JNum(1), JNum(2), JNum(3)>>))],
      Comment    |-> [src |-> "/* c */ null",
                      strict |-> Err("expected value at line 1 column 1"),
                      json5 |-> Ok(JNull)],
      Unclosed   |-> [src |-> "{a:",
                      strict |-> Err("key must be a string at line 1 column 2"),
                      json5 |-> Err("expected identifier or string at 1:4")],
      NoColon    |-> [src |-> "{\"a\" 1}",
                      strict |-> Err("expected colon at line 1 column 6"),
                      json5 |-> Err("expected colon at 1:6")],
      Empty      |-> [src |-> "",
                      strict |-> Err("EOF while parsing a value at line 1 column 0"),
                      json5 |-> Err("expected value at 1:1")] ]

DocNames == DOMAIN Documents
Text(lead, doc, trail) == [lead |-> lead, doc |-> doc, trail |-> trail]
Texts == {Text(l, d, t) : l \in {"", " "}, d \in DocNames, t \in {"", "\n"}}

\* str::trim
Trim(t) == Text("", t.doc, "")

\* serde_json::from_str(input)
StrictParse(t) == Documents[t.doc].strict

\* json5::from_str(input)
Json5Parse(t) == Documents[t.doc].json5

(***************************************************************************)
(* Arguments and sources; the state of a function that is not running      *)
(***************************************************************************)
\* Option<T> arguments
NoArg == [given |-> FALSE]
Arg(x) == [given |-> TRUE, v |-> x]

\* What a read finds: a text, or a failure (no such file, not UTF-8, ...).
Readable(t) == [ok |-> TRUE, val |-> t]
Unreadable(why) == [ok |-> FALSE, err |-> why]

PathIdle ==
    /\ value = JNull /\ path = <<>> /\ segs = <<>> /\ nseg = 0
    /\ cur = <<>> /\ pc = "idle" /\ result = None

ParseIdle ==
    /\ input = Text("", "Empty", "") /\ use_json5 = FALSE /\ ppc = "idle"
    /\ strictCalls = 0 /\ json5Calls = 0 /\ parsed = Err("")

InputIdle ==
    /\ text = NoArg /\ file = NoArg
    /\ disk = Unreadable("") /\ stdin = Unreadable("")
    /\ ipc = "idle" /\ fileReads = 0 /\ stdinReads = 0 /\ raw = Err("")

\* run has not returned; the process has not exited.
Pending == [pending |-> TRUE]
Running == -1

RunIdle ==
    /\ tty = FALSE /\ rpc = "idle" /\ stdout = <<>> /\ ret = Pending
    /\ exit_code = Running

\* No file at the path; a file holding the given bytes.
NoFile == [exists |-> FALSE, bytes |-> <<>>]
FileOf(bytes) == [exists |-> TRUE, bytes |-> bytes]

NoResponse == [status |-> 0, json |-> FALSE, length |-> NoArg, chunks |-> <<>>]
NoBar == [kind |-> "none", pos |-> 0, finished |-> FALSE]

HttpIdle ==
    /\ url = "" /\ headers = <<>> /\ timeout_secs = NoArg /\ save = NoArg
    /\ pretty = FALSE /\ hpc = "idle" /\ hi = 1 /\ hdrs = <<>> /\ client = 0
    /\ pb = "none" /\ sent = 0 /\ resp = NoResponse /\ dest = NoFile
    /\ created = FALSE /\ stream = <<>> /\ downloaded = 0 /\ pbar = NoBar
    /\ out = <<>> /\ herr = ""

(***************************************************************************)
(* parse_json                                                              *)
(***************************************************************************)
\* Lines 67-70: the error naming both parsers' messages.
BothFailed(strictError, json5Error) ==
    Err([kind |-> "Failed to parse as JSON or JSON5",
         strict |-> strictError, json5 |-> json5Error])

\* Lines 29-54 and 75: the diagnostic for a strict failure; it ends with the
\* strict parser's message (line 52).  The hint lines are texts only and are
\* left out.
InvalidJson(strictError) ==
    Err([kind |-> "Invalid JSON format", strict |-> strictError, json5 |-> ""])

\* A fallback taken whatever the flag says.
FallbackAlways(flag) == TRUE

\* Line 62: `if use_json5`
FallbackEnabled(flag) == flag

InitParse ==
    /\ PathIdle /\ InputIdle /\ HttpIdle /\ RunIdle
    /\ input \in Texts
    /\ use_json5 \in BOOLEAN
    /\ ppc = "strict"
    /\ strictCalls = 0 /\ json5Calls = 0
    /\ parsed = Err("")

\* Lines 59-61 and 73-76: the strict attempt.
TryStrict ==
    /\ ppc = "strict"
    /\ strictCalls' = strictCalls + 1
    /\ LET r == StrictParse(input)
       IN  IF r.ok THEN ppc' = "done" /\ parsed' = r
           ELSE IF FallbackEnabled(use_json5)
                THEN ppc' = "json5" /\ parsed' = r
                ELSE ppc' = "done" /\ parsed' = InvalidJson(r.err)
    /\ UNCHANGED <<input, use_json5, json5Calls, pathVars, inputVars, httpVars, runVars>>

\* Lines 64-72: the JSON5 attempt; `parsed` still holds the strict error.
TryJson5 ==
    /\ ppc = "json5"
    /\ json5Calls' = json5Calls + 1
    /\ LET r == Json5Parse(input)
       IN  parsed' = IF r.ok THEN r ELSE BothFailed(parsed.err, r.err)
    /\ ppc' = "done"
    /\ UNCHANGED <<input, use_json5, strictCalls, pathVars, inputVars, httpVars, runVars>>

NextParse ==
    \/ TryStrict
    \/ TryJson5

SpecParse == InitParse /\ [][NextParse]_vars

\* C6: the strict parser is called first and exactly once; when it succeeds
\* its value is returned and the JSON5 parser is not called; when it fails
\* with use_json5 off the result is an error and the JSON5 parser is not
\* called; when it fails with use_json5 on the JSON5 parser is called exactly
\* once, its value is returned on success, and otherwise the error carries
\* both parsers' messages.  {a: {b: [1, 2, 3]}} parses exactly when
\* use_json5 is on.
C6_TwoStagePolicy ==
    LET strict == Documents[input.doc].strict
        relaxed == Documents[input.doc].json5
    IN  /\ strictCalls <= 1 /\ json5Calls <= 1
        /\ json5Calls = 1 => strictCalls = 1
        /\ ppc = "done" =>
            /\ strictCalls = 1
            /\ strict.ok => parsed = strict /\ json5Calls = 0
            /\ (~strict.ok /\ ~use_json5) => ~parsed.ok /\ json5Calls = 0
            /\ (~strict.ok /\ use_json5) =>
                /\ json5Calls = 1
                /\ relaxed.ok => parsed = relaxed
                /\ ~relaxed.ok =>
                    /\ ~parsed.ok
                    /\ parsed.err.strict = strict.err
                    /\ parsed.err.json5 = relaxed.err
            /\ input.doc = "BareKeys" => (parsed.ok <=> use_json5)

\* {a: {b: [1, 2, 3]}} has been parsed by the JSON5 fallback.
C6_Witness ==
    /\ ppc = "done"
    /\ input.doc = "BareKeys" /\ use_json5
    /\ strictCalls = 1 /\ json5Calls = 1
    /\ parsed = Ok(ValueAB123)

(***************************************************************************)
(* get_input                                                               *)
(***************************************************************************)
\* The texts the sources may hold.
SourceTexts ==
    { Text("", "StrictAB", ""), Text(" ", "BareKeys", "\n"), Text("", "Empty", "") }

DiskStates == {Readable(t) : t \in SourceTexts} \cup
              {Unreadable("No such file or directory"),
               Unreadable("stream did not contain valid UTF-8")}
StdinStates == {Readable(t) : t \in SourceTexts} \cup
               {Unreadable("stream did not contain valid UTF-8")}

\* Lines 15-16: the read, its error given the path as context.
ReadFileResult(p, d) ==
    IF d.ok THEN Ok(d.val)
    ELSE Err([context |-> "Failed to read file", path |-> p, cause |-> d.err])

\* The source get_input reads when the inline text is preferred to the file.
ChooseSourceTextFirst(t, f) ==
    IF t.given THEN "text" ELSE IF f.given THEN "file" ELSE "stdin"

\* Lines 14, 19, 23: the source get_input reads.
ChooseSource(t, f) ==
    IF f.given THEN "file" ELSE IF t.given THEN "text" ELSE "stdin"

InitInput ==
    /\ PathIdle /\ ParseIdle /\ HttpIdle /\ RunIdle
    /\ text \in {NoArg} \cup {Arg(t) : t \in SourceTexts}
    /\ file \in {NoArg, Arg("data.json")}
    /\ disk \in DiskStates
    /\ stdin \in StdinStates
    /\ ipc = "start"
    /\ fileReads = 0 /\ stdinReads = 0
    /\ raw = Err("")

\* Lines 14-17
ReadFile ==
    /\ ipc = "start" /\ ChooseSource(text, file) = "file"
    /\ fileReads' = fileReads + 1
    /\ raw' = ReadFileResult(file.v, disk)
    /\ ipc' = "done"
    /\ UNCHANGED <<text, file, disk, stdin, stdinReads, pathVars, parseVars, httpVars, runVars>>

\* Lines 19-21
UseText ==
    /\ ipc = "start" /\ ChooseSource(text, file) = "text"
    /\ raw' = Ok(text.v)
    /\ ipc' = "done"
    /\ UNCHANGED <<text, file, disk, stdin, fileReads, stdinReads, pathVars, parseVars,
                   httpVars, runVars>>

\* Lines 23-25
ReadStdin ==
    /\ ipc = "start" /\ ChooseSource(text, file) = "stdin"
    /\ stdinReads' = stdinReads + 1
    /\ raw' = IF stdin.ok THEN Ok(stdin.val) ELSE Err(stdin.err)
    /\ ipc' = "done"
    /\ UNCHANGED <<text, file, disk, stdin, fileReads, pathVars, parseVars, httpVars, runVars>>

NextInput ==
    \/ ReadFile
    \/ UseText
    \/ ReadStdin

SpecInput == InitInput /\ [][NextInput]_vars

\* C7: with a file given only the file is read, and a failed read is the
\* result, whatever the inline text and standard input hold; with no file
\* and an inline text the text is returned as it is and nothing is read;
\* standard input is read only when neither is given.
C7_SourcePriority ==
    /\ fileReads <= 1 /\ stdinReads <= 1
    /\ stdinReads = 1 => ~file.given /\ ~text.given
    /\ fileReads = 1 => file.given
    /\ ipc = "done" =>
        /\ file.given =>
            /\ fileReads = 1 /\ stdinReads = 0
            /\ disk.ok => raw = Ok(disk.val)
            /\ ~disk.ok => ~raw.ok
        /\ (~file.given /\ text.given) =>
            raw = Ok(text.v) /\ fileReads = 0 /\ stdinReads = 0
        /\ (~file.given /\ ~text.given) =>
            /\ stdinReads = 1 /\ fileReads = 0
            /\ raw.ok <=> stdin.ok

\* The file could not be read; the inline text and standard input, both
\* usable, were not fallen back to.
C7_Witness ==
    /\ ipc = "done"
    /\ file.given /\ text.given /\ stdin.ok
    /\ ~disk.ok
    /\ ~raw.ok /\ stdinReads = 0

(***************************************************************************)
(* Inputs of the path resolver                                             *)
(***************************************************************************)
MaxSegs == 3

\* {"a":{"b":[1,2,3],"a":"value"},"b":[{"a":"found"},[1,2]]}
DocNested ==
    JObj(<<"a">> :> JObj(<<"b">> :> JArr(<<JNum(1), JNum(2), JNum(3)>>)
                         @@ <<"a">> :> JStr("value"))
         @@ <<"b">> :> JArr(<<JObj(<<"a">> :> JStr("found")),
                              JArr(<<JNum(1), JNum(2)>>)>>))

\* [[1,2],{"a":[1,2],"]":null},true]
DocArray ==
    JArr(<<JArr(<<JNum(1), JNum(2)>>),
           JObj(<<"a">> :> JArr(<<JNum(1), JNum(2)>>) @@ <<"]">> :> JNull),
           JBool(TRUE)>>)

\* "value"
DocScalar == JStr("value")

\* {"":{"":[true],"a":1},"a":[[1,2],2]}
DocEmptyKey ==
    JObj(<<>> :> JObj(<<>> :> JArr(<<JBool(TRUE)>>) @@ <<"a">> :> JNum(1))
         @@ <<"a">> :> JArr(<<JArr(<<JNum(1), JNum(2)>>), JNum(2)>>))

Docs == {DocNested, DocArray, DocScalar, DocEmptyKey}

\* The segments paths are built from: every syntactic shape get_by_path
\* distinguishes.
Segments ==
    { <<>>,                                   \* empty
      <<"a">>, <<"b">>, <<"]">>,              \* plain fields
      <<"a", "[", "0", "]">>,                 \* a[0]
      <<"b", "[", "0", "]">>,                 \* b[0]
      <<"b", "[", "2", "]">>,                 \* b[2]
      <<"[", "0", "]">>, <<"[", "1", "]">>,   \* [0] [1]
      <<"a", "[", "+", "1", "]">>,            \* a[+1]
      <<"a", "[", "a", "]">>,                 \* a[a]
      <<"a", "[", "]">>,                      \* a[]
      <<"a", "[", "0">>,                      \* a[0
      <<"a", "[">>, <<"[">>,                  \* a[  [
      <<"a", "[", "0", "]", "b">>,            \* a[0]b
      <<"a", "[", "0", "]", "[", "1", "]">> } \* a[0][1]

RECURSIVE Join(_)
Join(ss) ==
    IF Len(ss) = 1 THEN ss[1] ELSE ss[1] \o <<".">> \o Join(Tail(ss))

SegLists == UNION {[1..n -> Segments] : n \in 1..MaxSegs}
Paths == {Join(ss) : ss \in SegLists}

(***************************************************************************)
(* The resolver as a state machine                                         *)
(***************************************************************************)
InitPath ==
    /\ ParseIdle /\ InputIdle /\ HttpIdle /\ RunIdle
    /\ value \in Docs
    /\ path \in Paths
    /\ segs = Split(path)
    /\ nseg = 0
    /\ cur = <<>>
    /\ pc = "loop"
    /\ result = None

\* The outcome of one loop iteration: go on with the next segment, or return.
Advance(r) ==
    /\ nseg' = nseg + 1
    /\ segs' = Tail(segs)
    /\ UNCHANGED <<value, path, parseVars, inputVars, httpVars, runVars>>
    /\ IF r.tag = "some"
       THEN cur' = r.ref /\ pc' = "loop" /\ UNCHANGED result
       ELSE /\ UNCHANGED cur
            /\ pc' = IF r.tag = "panic" THEN "panic" ELSE "done"
            /\ result' = None

\* Lines 88-90: `if seg.is_empty() { return None; }`
StepEmptySegment ==
    /\ pc = "loop" /\ segs # <<>>
    /\ Head(segs) = <<>>
    /\ Advance(SegmentStep(value, cur, Head(segs)))

\* Lines 93-102
StepIndexSegment ==
    /\ pc = "loop" /\ segs # <<>>
    /\ Head(segs) # <<>> /\ SplitOnce(Head(segs)).found
    /\ Advance(SegmentStep(value, cur, Head(segs)))

\* Lines 103-105
StepFieldSegment ==
    /\ pc = "loop" /\ segs # <<>>
    /\ Head(segs) # <<>> /\ ~SplitOnce(Head(segs)).found
    /\ Advance(SegmentStep(value, cur, Head(segs)))

\* Line 107: `Some(cur)`
ReturnSome ==
    /\ pc = "loop" /\ segs = <<>>
    /\ pc' = "done"
    /\ result' = Some(cur)
    /\ UNCHANGED <<value, path, segs, nseg, cur, parseVars, inputVars, httpVars, runVars>>

NextPath ==
    \/ StepEmptySegment
    \/ StepIndexSegment
    \/ StepFieldSegment
    \/ ReturnSome

SpecPath == InitPath /\ [][NextPath]_vars

(***************************************************************************)
(* Properties of get_by_path                                               *)
(***************************************************************************)
\* Every node of a document, as the steps leading to it from the root.
RECURSIVE AllRefs(_)
AllRefs(v) ==
    {<<>>} \cup
    (IF v.t = "obj"
     THEN UNION {{<<FieldStep(k)>> \o r : r \in AllRefs(v.m[k])} : k \in DOMAIN v.m}
     ELSE IF v.t = "arr"
     THEN UNION {{<<IndexStep(i - 1)>> \o r : r \in AllRefs(v.items[i])} :
                 i \in DOMAIN v.items}
     ELSE {})

\* The decimal text of a natural number.
RECURSIVE Dec(_)
Dec(n) ==
    IF n < Len(DigitChars) THEN <<DigitChars[n + 1]>>
    ELSE Dec(n \div Len(DigitChars)) \o <<DigitChars[(n % Len(DigitChars)) + 1]>>

Bracketed(i) == <<"[">> \o Dec(i) \o <<"]">>

\* The ways of writing a walk as segments: a field is a segment `name`, an
\* index is a segment `[i]`, and an index right after a field may be written
\* in the field's segment, `name[i]`.
RECURSIVE RenderSegs(_)
RenderSegs(ref) ==
    IF ref = <<>> THEN {<<>>}
    ELSE LET s == Head(ref)
         IN  IF s.kind = "index"
             THEN {<<Bracketed(s.idx)>> \o r : r \in RenderSegs(Tail(ref))}
             ELSE {<<s.key>> \o r : r \in RenderSegs(Tail(ref))} \cup
                  (IF Len(ref) >= 2 /\ ref[2].kind = "index"
                   THEN {<<s.key \o Bracketed(ref[2].idx)>> \o r :
                         r \in RenderSegs(Tail(Tail(ref)))}
                   ELSE {})

PathsOf(ref) == {Join(ss) : ss \in RenderSegs(ref)}

HasChar(s, c) == \E i \in 1..Len(s) : s[i] = c

\* A field name a path can spell: not empty, without '.' and '['.
Addressable(k) == k # <<>> /\ ~HasChar(k, ".") /\ ~HasChar(k, "[")
AddressableRef(ref) ==
    \A i \in 1..Len(ref) : ref[i].kind = "field" => Addressable(ref[i].key)

\* C1 as stated: whenever the path spells the field and index steps leading
\* to a node of the document (field names without '.' and '['), get_by_path
\* returns exactly that node.
C1_AsStated ==
    pc = "done" =>
        \A ref \in AllRefs(value) \ {<<>>} :
            (/\ \A i \in 1..Len(ref) :
                    ref[i].kind = "field" =>
                        ~HasChar(ref[i].key, ".") /\ ~HasChar(ref[i].key, "[")
             /\ path \in PathsOf(ref))
            => result = Some(ref)

\* C1 amended: whenever the path spells the field and index steps leading to
\* a node of the document, every field name on the way being non-empty and
\* without '.' and '[', get_by_path returns exactly that node.
C1_ResolvesExistingNode ==
    pc = "done" =>
        \A ref \in AllRefs(value) \ {<<>>} :
            (AddressableRef(ref) /\ path \in PathsOf(ref)) => result = Some(ref)

\* "a.b[2]" on {"a":{"b":[1,2,3],...}} has returned the node 3.
C1_Witness ==
    /\ pc = "done"
    /\ value = DocNested
    /\ path = <<"a", ".", "b", "[", "2", "]">>
    /\ result = Some(<<FieldStep(<<"a">>), FieldStep(<<"b">>), IndexStep(2)>>)
    /\ Deref(value, result.ref) = JNum(3)

\* What the claim asks of a segment with '[': the text after the first '['
\* ends with ']', what lies between is a non-negative integer, the value the
\* index applies to is an array, and the index is less than its length.
IsNaturalText(s) ==
    LET ds == IF s # <<>> /\ s[1] = "+" THEN Tail(s) ELSE s
    IN  ds # <<>> /\ \A i \in 1..Len(ds) : IsDigit(ds[i])

BracketSegmentOk(root, ref, seg) ==
    LET i == FirstIndex(seg, "[")
        name == SubSeq(seg, 1, i - 1)
        rest == SubSeq(seg, i + 1, Len(seg))
        node == Deref(root, ref)
    IN  /\ rest # <<>> /\ rest[Len(rest)] = "]"
        /\ IsNaturalText(SubSeq(rest, 1, Len(rest) - 1))
        /\ name # <<>> => node.t = "obj" /\ name \in DOMAIN node.m
        /\ LET base == IF name # <<>> THEN node.m[name] ELSE node
               ds == SubSeq(rest, 1 + (IF rest[1] = "+" THEN 1 ELSE 0), Len(rest) - 1)
           IN  base.t = "arr" /\ DigitsValue(ds, 0) < Len(base.items)

\* b[2] on the 2-element array b: index out of range.  On "a":[[1,2],2]:
\* a[a], not a number; a[0, no ']'; a[0][1], two indices in one segment.
C2_Examples ==
    { <<DocNested, <<"b", "[", "2", "]">>>>,
      <<DocEmptyKey, <<"a", "[", "a", "]">>>>,
      <<DocEmptyKey, <<"a", "[", "0">>>>,
      <<DocEmptyKey, <<"a", "[", "0", "]", "[", "1", "]">>>> }

\* C2: a segment with '[' that is not `name[index]` with a closing ']', a
\* non-negative integer index and an array long enough to hold it makes
\* get_by_path return None for the whole path; so do b[2] on a 2-element
\* array, a[a], a[0 and a[0][1].
C2_BadIndexSegmentIsNotFound ==
    /\ [][(/\ pc = "loop" /\ segs # <<>>
           /\ HasChar(Head(segs), "[")
           /\ ~BracketSegmentOk(value, cur, Head(segs)))
          => (pc' = "done" /\ result' = None)]_vars
    /\ [](pc = "done" /\ <<value, path>> \in C2_Examples => result = None)

\* a[0][1] has been refused although a[0] is an array with an element 1.
C2_Witness ==
    /\ pc = "done"
    /\ value = DocEmptyKey
    /\ path = <<"a", "[", "0", "]", "[", "1", "]">>
    /\ result = None
    /\ GetByPath(value, <<"a", "[", "0", "]", ".", "[", "1", "]">>).tag = "some"

\* The path is empty, starts or ends with a dot, or holds two dots in a row.
HasEmptySegment(p) ==
    \/ p = <<>>
    \/ p[1] = "."
    \/ p[Len(p)] = "."
    \/ \E i \in 1..(Len(p) - 1) : p[i] = "." /\ p[i + 1] = "."

\* C3: a path with an empty segment yields None, whatever the document.
C3_EmptySegmentIsNotFound ==
    pc = "done" /\ HasEmptySegment(path) => result = None

\* The segments before the empty one had resolved.
C3_Witness ==
    /\ pc = "done"
    /\ HasEmptySegment(path)
    /\ nseg >= 2 /\ cur # <<>>
    /\ result = None

PlainSegment(seg) == seg # <<>> /\ ~HasChar(seg, "[")

\* C4: a segment without '[' is looked up as a field of the current value;
\* when the current value is no object or has no such key the path yields
\* None, and no segment is evaluated after that.
C4_FieldSegment ==
    [][/\ pc # "done"
       /\ (pc = "loop" /\ segs # <<>> /\ PlainSegment(Head(segs))) =>
            LET node == Deref(value, cur)
            IN  IF node.t = "obj" /\ Head(segs) \in DOMAIN node.m
                THEN /\ cur' = Append(cur, FieldStep(Head(segs)))
                     /\ pc' = "loop"
                ELSE /\ pc' = "done" /\ result' = None
                     /\ nseg' = nseg + 1]_vars

\* A field segment failed on an array, with segments left unevaluated.
C4_Witness ==
    /\ pc = "done" /\ result = None
    /\ nseg >= 2 /\ nseg < Len(Split(path))
    /\ PlainSegment(Split(path)[nseg])
    /\ Deref(value, cur).t = "arr"

\* C5: every step of get_by_path ends the call or consumes a segment of the
\* finite path, so the call terminates; it never panics; what it returns is
\* None or a node of the document; and the document is never changed.
C5_Total ==
    [][/\ value' = value
       /\ pc' \in {"loop", "done"}
       /\ pc' = "done" \/ (Len(segs') < Len(segs) /\ nseg' = nseg + 1)
       /\ nseg' <= Len(Split(path))
       /\ pc' = "done" =>
            \/ result' = None
            \/ result'.tag = "some" /\ result'.ref \in AllRefs(value')]_vars

\* "a[" has returned None.
C5_Witness ==
    /\ pc = "done"
    /\ path = <<"a", "[">>
    /\ nseg = 1
    /\ result = None

(***************************************************************************)
(* http get: header strings                                                *)
(***************************************************************************)
Whitespace == {" ", "\t", "\n"}

\* str::trim
RECURSIVE TrimStart(_)
TrimStart(s) ==
    IF s # <<>> /\ Head(s) \in Whitespace THEN TrimStart(Tail(s)) ELSE s

RECURSIVE TrimEnd(_)
TrimEnd(s) ==
    IF s # <<>> /\ s[Len(s)] \in Whitespace
    THEN TrimEnd(SubSeq(s, 1, Len(s) - 1)) ELSE s

TrimWs(s) == TrimEnd(TrimStart(s))

\* h.split_once(':')
SplitOnceColon(h) ==
    LET i == FirstIndex(h, ":")
    IN  IF i = 0 THEN [found |-> FALSE, k |-> <<>>, v |-> <<>>]
        ELSE [found |-> TRUE, k |-> SubSeq(h, 1, i - 1),
              v |-> SubSeq(h, i + 1, Len(h))]

\* The characters of the model's header strings that a header name may hold
\* (RFC 7230 token characters); HeaderName keeps names in lower case.
TokenChars == {"a", "k", "v", "K", "-"}
Lower(c) == IF c = "K" THEN "k" ELSE c

\* <HeaderName as FromStr>::from_str
ParseHeaderName(s) ==
    IF s # <<>> /\ \A i \in 1..Len(s) : s[i] \in TokenChars
    THEN Ok([i \in 1..Len(s) |-> Lower(s[i])])
    ELSE Err("invalid HTTP header name")

\* <HeaderValue as FromStr>::from_str: visible ASCII, space and tab
ParseHeaderValue(s) ==
    IF \A i \in 1..Len(s) : s[i] # "\n"
    THEN Ok(s)
    ELSE Err("failed to parse header value")

\* Lines 23-35: one item of the list.
ParseHeaderItem(h) ==
    LET sp == SplitOnceColon(h)
    IN  IF ~sp.found THEN Err("Header must be key:value")
        ELSE LET key == ParseHeaderName(TrimWs(sp.k))
             IN  IF ~key.ok THEN Err("Invalid header key")
                 ELSE LET val == ParseHeaderValue(TrimWs(sp.v))
                      IN  IF ~val.ok THEN Err("Invalid header value")
                          ELSE Ok([name |-> key.val, value |-> val.val])

\* A loop that looks at the first item only.
HeadersLeftFirstOnly(i, items) == i <= Len(items) /\ i <= 1

\* Line 22: `for h in items` has an item left.
HeadersLeft(i, items) == i <= Len(items)

(***************************************************************************)
(* http get: inputs and environment                                        *)
(***************************************************************************)
MaxHeaders == 2
MaxChunks == 2
DefaultTimeoutSecs == 30

\* Url::parse: an absolute URL parses, a relative one and "" do not.
UrlTable ==
    [ Absolute |-> [src |-> "https://example.com/data.json", parses |-> TRUE],
      Relative |-> [src |-> "example.com/data.json", parses |-> FALSE],
      Blank    |-> [src |-> "", parses |-> FALSE] ]
Urls == DOMAIN UrlTable
UrlParses(u) == UrlTable[u].parses

HeaderStrings ==
    { <<"k", ":", "v">>,                               \* k:v
      <<"K", ":", " ", "v", ":", "v", " ">>,           \* "K: v:v "
      <<"a", ":">>,                                    \* a:
      <<"k", "v">>,                                    \* kv
      <<":", "v">>,                                    \* :v
      <<"k", " ", "k", ":", "v">>,                     \* "k k:v"
      <<"k", ":", "v", "\n", "v">> }                   \* k:v<LF>v

HeaderLists == UNION {[1..n -> HeaderStrings] : n \in 0..MaxHeaders}

Chunks == { <<1>>, <<2, 3>> }
Bodies == UNION {[1..n -> Chunks] : n \in 0..MaxChunks}

RECURSIVE Flatten(_)
Flatten(cs) == IF cs = <<>> THEN <<>> ELSE Head(cs) \o Flatten(Tail(cs))

\* A response: its status, whether its content type is application/json,
\* its content length when it declares one, and the chunks of its body.  A
\* body that ends short of the declared length is a stream error (below),
\* so a declared length is the length of the body.
Response(status, json, declared, chunks) ==
    [status |-> status, json |-> json,
     length |-> IF declared THEN Arg(Len(Flatten(chunks))) ELSE NoArg,
     chunks |-> chunks]

Responses ==
    {Response(st, j, d, cs) : st \in {200, 404}, j \in BOOLEAN, d \in BOOLEAN,
                              cs \in Bodies}

\* The save path before the run: no file, or a file from an earlier run.
InitialFiles == {NoFile, FileOf(<<9, 9, 9, 9>>)}

\* Lines 43-49 and 87-90: the progress indicator of the download.
Bar(total) ==
    IF total.given THEN [kind |-> "sized", pos |-> 0, finished |-> FALSE]
    ELSE [kind |-> "spinner", pos |-> 0, finished |-> FALSE]

\* A write that puts the chunk in front of what the file holds.
WritePrepending(bytes, chunk) == chunk \o bytes

\* Line 94: file.write_all(&chunk)
WriteAll(bytes, chunk) == bytes \o chunk

StatusLine == [kind |-> "Status:", arg |-> resp.status]
SavedLine == [kind |-> "Saved to:", arg |-> save.v]

(***************************************************************************)
(* http_get::run as a state machine                                        *)
(***************************************************************************)
InitHttp ==
    /\ PathIdle /\ ParseIdle /\ InputIdle /\ RunIdle
    /\ url \in Urls
    /\ headers \in HeaderLists
    /\ timeout_secs \in {NoArg, Arg(5)}
    /\ save \in {NoArg, Arg("out.bin")}
    /\ pretty \in BOOLEAN
    /\ dest \in InitialFiles
    /\ hpc = "url" /\ hi = 1 /\ hdrs = <<>> /\ client = 0 /\ pb = "none"
    /\ sent = 0 /\ resp = NoResponse /\ created = FALSE /\ stream = <<>>
    /\ downloaded = 0 /\ pbar = NoBar /\ out = <<>> /\ herr = ""

\* `?` on an Err: run returns the error.
Fail(e) == hpc' = "failed" /\ herr' = e

\* Line 59
ParseUrl ==
    /\ hpc = "url"
    /\ IF UrlParses(url) THEN hpc' = "headers" /\ UNCHANGED herr
       ELSE Fail("Invalid URL")
    /\ UNCHANGED <<url, headers, timeout_secs, save, pretty, hi, hdrs, client, pb,
                   sent, resp, dest, created, stream, downloaded, pbar, out>>
    /\ UNCHANGED <<pathVars, parseVars, inputVars, runVars>>

\* Lines 22-38: one iteration of parse_headers
ParseHeader ==
    /\ hpc = "headers" /\ HeadersLeft(hi, headers)
    /\ LET r == ParseHeaderItem(headers[hi])
       IN  IF r.ok
           THEN /\ hdrs' = Append(hdrs, r.val)
                /\ hi' = hi + 1
                /\ UNCHANGED <<hpc, herr>>
           ELSE Fail(r.err) /\ UNCHANGED <<hi, hdrs>>
    /\ UNCHANGED <<url, headers, timeout_secs, save, pretty, client, pb,
                   sent, resp, dest, created, stream, downloaded, pbar, out>>
    /\ UNCHANGED <<pathVars, parseVars, inputVars, runVars>>

\* Lines 39 and 60: parse_headers returns the map
HeadersParsed ==
    /\ hpc = "headers" /\ ~HeadersLeft(hi, headers)
    /\ hpc' = "client"
    /\ UNCHANGED <<url, headers, timeout_secs, save, pretty, hi, hdrs, client, pb,
                   sent, resp, dest, created, stream, downloaded, pbar, out, herr>>
    /\ UNCHANGED <<pathVars, parseVars, inputVars, runVars>>

\* Lines 62-64: the builder may fail (no TLS backend, ...)
BuildClient ==
    /\ hpc = "client"
    /\ \E ok \in BOOLEAN :
        IF ok
        THEN /\ client' = IF timeout_secs.given THEN timeout_secs.v
                          ELSE DefaultTimeoutSecs
             /\ hpc' = "request" /\ UNCHANGED herr
        ELSE Fail("builder error") /\ UNCHANGED client
    /\ UNCHANGED <<url, headers, timeout_secs, save, pretty, hi, hdrs, pb,
                   sent, resp, dest, created, stream, downloaded, pbar, out>>
    /\ UNCHANGED <<pathVars, parseVars, inputVars, runVars>>

\* Lines 66-72: the spinner starts and the request goes out
SendRequest ==
    /\ hpc = "request"
    /\ pb' = "running"
    /\ sent' = sent + 1
    /\ hpc' = "response"
    /\ UNCHANGED <<url, headers, timeout_secs, save, pretty, hi, hdrs, client,
                   resp, dest, created, stream, downloaded, pbar, out, herr>>
    /\ UNCHANGED <<pathVars, parseVars, inputVars, runVars>>

\* Lines 73-79 and 85: the response head arrives
ReceiveResponse ==
    /\ hpc = "response"
    /\ \E r \in Responses : resp' = r /\ stream' = r.chunks
    /\ hpc' = IF save.given THEN "create" ELSE "body"
    /\ UNCHANGED <<url, headers, timeout_secs, save, pretty, hi, hdrs, client, pb,
                   sent, dest, created, downloaded, pbar, out, herr>>
    /\ UNCHANGED <<pathVars, parseVars, inputVars, runVars>>

\* Line 74: connection refused, DNS or TLS failure, timeout
SendFails ==
    /\ hpc = "response"
    /\ Fail("Network error while sending request")
    /\ UNCHANGED <<url, headers, timeout_secs, save, pretty, hi, hdrs, client, pb,
                   sent, resp, dest, created, stream, downloaded, pbar, out>>
    /\ UNCHANGED <<pathVars, parseVars, inputVars, runVars>>

\* Lines 80-90: File::create truncates or creates the file
CreateFile ==
    /\ hpc = "create"
    /\ \E ok \in BOOLEAN :
        IF ok
        THEN /\ dest' = FileOf(<<>>)
             /\ created' = TRUE
             /\ downloaded' = 0
             /\ pbar' = Bar(resp.length)
             /\ hpc' = "stream" /\ UNCHANGED herr
        ELSE Fail("Cannot create file")
             /\ UNCHANGED <<dest, created, downloaded, pbar>>
    /\ UNCHANGED <<url, headers, timeout_secs, save, pretty, hi, hdrs, client, pb,
                   sent, resp, stream, out>>
    /\ UNCHANGED <<pathVars, parseVars, inputVars, runVars>>

\* Lines 92-98: a chunk arrives and is written
WriteChunk ==
    /\ hpc = "stream" /\ stream # <<>>
    /\ LET chunk == Head(stream)
       IN  /\ dest' = FileOf(WriteAll(dest.bytes, chunk))
           /\ downloaded' = downloaded + Len(chunk)
           /\ pbar' = IF resp.length.given
                      THEN [pbar EXCEPT !.pos = downloaded + Len(chunk)]
                      ELSE pbar
    /\ stream' = Tail(stream)
    /\ UNCHANGED <<url, headers, timeout_secs, save, pretty, hpc, hi, hdrs, client,
                   pb, sent, resp, created, out, herr>>
    /\ UNCHANGED <<pathVars, parseVars, inputVars, runVars>>

\* Line 94: the write fails, after any part of the chunk
WriteFails ==
    /\ hpc = "stream" /\ stream # <<>>
    /\ \E n \in 0..(Len(Head(stream)) - 1) :
        dest' = FileOf(dest.bytes \o SubSeq(Head(stream), 1, n))
    /\ stream' = Tail(stream)
    /\ Fail("write error")
    /\ UNCHANGED <<url, headers, timeout_secs, save, pretty, hi, hdrs, client,
                   pb, sent, resp, created, downloaded, pbar, out>>
    /\ UNCHANGED <<pathVars, parseVars, inputVars, runVars>>

\* Line 93: the stream yields an error (connection lost, body shorter than
\* declared, the request timeout elapsing)
StreamError ==
    /\ hpc = "stream"
    /\ Fail("Error reading response stream")
    /\ UNCHANGED <<url, headers, timeout_secs, save, pretty, hi, hdrs, client, pb,
                   sent, resp, dest, created, stream, downloaded, pbar, out>>
    /\ UNCHANGED <<pathVars, parseVars, inputVars, runVars>>

\* Lines 92 and 101-106: the stream ends
FinishDownload ==
    /\ hpc = "stream" /\ stream = <<>>
    /\ pbar' = [pbar EXCEPT !.finished = TRUE]
    /\ pb' = "cleared"
    /\ out' = out \o <<StatusLine, SavedLine>>
    /\ hpc' = "done"
    /\ UNCHANGED <<url, headers, timeout_secs, save, pretty, hi, hdrs, client,
                   sent, resp, dest, created, stream, downloaded, herr>>
    /\ UNCHANGED <<pathVars, parseVars, inputVars, runVars>>

\* Lines 116-127
ReadJsonBody ==
    /\ hpc = "body" /\ pretty /\ resp.json
    /\ \E ok \in BOOLEAN :
        IF ok
        THEN /\ pb' = "cleared"
             /\ out' = out \o <<StatusLine, [kind |-> "json", arg |-> Flatten(stream)]>>
             /\ hpc' = "done" /\ UNCHANGED herr
        ELSE Fail("Failed to parse JSON") /\ UNCHANGED <<pb, out>>
    /\ stream' = <<>>
    /\ UNCHANGED <<url, headers, timeout_secs, save, pretty, hi, hdrs, client,
                   sent, resp, dest, created, downloaded, pbar>>
    /\ UNCHANGED <<pathVars, parseVars, inputVars, runVars>>

\* Lines 128-134
ReadTextBody ==
    /\ hpc = "body" /\ ~(pretty /\ resp.json)
    /\ \E ok \in BOOLEAN :
        IF ok
        THEN /\ pb' = "cleared"
             /\ out' = out \o <<StatusLine, [kind |-> "text", arg |-> Flatten(stream)]>>
             /\ hpc' = "done" /\ UNCHANGED herr
        ELSE Fail("error decoding response body") /\ UNCHANGED <<pb, out>>
    /\ stream' = <<>>
    /\ UNCHANGED <<url, headers, timeout_secs, save, pretty, hi, hdrs, client,
                   sent, resp, dest, created, downloaded, pbar>>
    /\ UNCHANGED <<pathVars, parseVars, inputVars, runVars>>

\* The points where run awaits: lines 73, 81, 92-94, 119, 129.
AwaitPoints == {"response", "create", "stream", "body"}

\* An interrupt signal while run awaits: no handler is installed
\* (main.rs:14-58), so the process ends there.
Interrupt ==
    /\ hpc \in AwaitPoints
    /\ hpc' = "killed"
    /\ UNCHANGED <<url, headers, timeout_secs, save, pretty, hi, hdrs, client, pb,
                   sent, resp, dest, created, stream, downloaded, pbar, out, herr>>
    /\ UNCHANGED <<pathVars, parseVars, inputVars, runVars>>

NextHttp ==
    \/ ParseUrl
    \/ ParseHeader
    \/ HeadersParsed
    \/ BuildClient
    \/ SendRequest
    \/ ReceiveResponse
    \/ SendFails
    \/ CreateFile
    \/ WriteChunk
    \/ WriteFails
    \/ StreamError
    \/ FinishDownload
    \/ ReadJsonBody
    \/ ReadTextBody
    \/ Interrupt

SpecHttp == InitHttp /\ [][NextHttp]_vars

(***************************************************************************)
(* Properties of http get                                                  *)
(***************************************************************************)
\* A header string with a colon, a valid name before it and a valid value
\* after it.
HeaderWellFormed(h) ==
    /\ HasChar(h, ":")
    /\ LET i == FirstIndex(h, ":")
       IN  /\ ParseHeaderName(TrimWs(SubSeq(h, 1, i - 1))).ok
           /\ ParseHeaderValue(TrimWs(SubSeq(h, i + 1, Len(h)))).ok

BadArguments ==
    \/ ~UrlParses(url)
    \/ \E i \in DOMAIN headers : ~HeaderWellFormed(headers[i])

\* C8: when the URL does not parse or a header string at any position is
\* malformed, the run fails without a request sent, a spinner started or a
\* file created; a request is sent only when the URL and every header have
\* been accepted.
C8_ValidatedBeforeSend ==
    /\ BadArguments =>
        /\ sent = 0 /\ resp = NoResponse
        /\ pb = "none" /\ pbar = NoBar
        /\ ~created /\ dest \in InitialFiles
        /\ hpc \in {"url", "headers", "failed"}
        /\ hpc = "failed" =>
            herr \in {"Invalid URL", "Header must be key:value",
                      "Invalid header key", "Invalid header value"}
    /\ (sent > 0 \/ pb # "none" \/ created) =>
        /\ ~BadArguments
        /\ Len(hdrs) = Len(headers)

\* The second of two headers has no colon: the run has failed, nothing sent.
C8_Witness ==
    /\ hpc = "failed"
    /\ UrlParses(url)
    /\ Len(headers) = 2
    /\ HeaderWellFormed(headers[1])
    /\ ~HasChar(headers[2], ":")
    /\ herr = "Header must be key:value"
    /\ Len(hdrs) = 1
    /\ sent = 0 /\ pb = "none" /\ ~created

DownloadInterrupted ==
    /\ created
    /\ \/ hpc = "failed" /\ herr = "Error reading response stream"
       \/ hpc = "killed"
    /\ stream # <<>>

\* C10: after an interrupted download the run has ended with an error, has
\* not printed "Saved to", and the save path does not hold a truncated body.
C10_NoTruncatedFileLeft ==
    DownloadInterrupted =>
        /\ hpc \in {"failed", "killed"}
        /\ \A i \in DOMAIN out : out[i].kind # "Saved to:"
        /\ ~(dest.exists /\ dest.bytes # Flatten(resp.chunks))

(***************************************************************************)
(* json_select::run and the exit from main                                 *)
(***************************************************************************)
\* The characters of a key as a string.
RECURSIVE Cat(_)
Cat(chars) == IF chars = <<>> THEN "" ELSE Head(chars) \o Cat(Tail(chars))

RECURSIVE Indent(_)
Indent(depth) == IF depth = 0 THEN "" ELSE "  " \o Indent(depth - 1)

\* The keys of an object in the order the map yields them; the model's
\* objects carry no order, and one enumeration stands for the map's.
KeyOrder(m) ==
    LET n == Cardinality(DOMAIN m)
    IN  CHOOSE ks \in [1..n -> DOMAIN m] : \A i, j \in 1..n : ks[i] = ks[j] => i = j

\* Line 120: the pretty text of a value, as serde_json's pretty formatter
\* lays it out (two spaces a level, an item a line).  The strings of the
\* documents hold nothing that is escaped.
RECURSIVE Pretty(_, _)
RECURSIVE PrettyItems(_, _)
RECURSIVE PrettyMembers(_, _, _)
Pretty(v, depth) ==
    CASE v.t = "null" -> "null"
      [] v.t = "bool" -> IF v.b THEN "true" ELSE "false"
      [] v.t = "num"  -> ToString(v.n)
      [] v.t = "str"  -> "\"" \o v.s \o "\""
      [] v.t = "arr"  ->
            IF v.items = <<>> THEN "[]"
            ELSE "[\n" \o PrettyItems(v.items, depth + 1) \o "\n" \o Indent(depth) \o "]"
      [] v.t = "obj"  ->
            IF DOMAIN v.m = {} THEN "{}"
            ELSE "{\n" \o PrettyMembers(v.m, KeyOrder(v.m), depth + 1)
                 \o "\n" \o Indent(depth) \o "}"

PrettyItems(items, depth) ==
    Indent(depth) \o Pretty(Head(items), depth) \o
    (IF Tail(items) = <<>> THEN "" ELSE ",\n" \o PrettyItems(Tail(items), depth))

PrettyMembers(m, keys, depth) ==
    Indent(depth) \o "\"" \o Cat(Head(keys)) \o "\": " \o Pretty(m[Head(keys)], depth) \o
    (IF Tail(keys) = <<>> THEN "" ELSE ",\n" \o PrettyMembers(m, Tail(keys), depth))

\* A line of standard output: its text, and whether ANSI styling is woven
\* into it.
Line(styled, txt) == [styled |-> styled, text |-> txt]

\* Line 112 and style::title: the title, bold and underlined.
TitleLine == Line(TRUE, "JSON Select")

\* Lines 120-121: the value's pretty text, coloured when standard output
\* is a terminal.
ValueLine(v, terminal) == Line(terminal, Pretty(v, 0))

\* Line 125
SentinelLine == Line(FALSE, "(null)")

\* A selection that prints the sentinel for a found null as well.
SelectedLineNullAsSentinel(root, r, terminal) ==
    IF r.tag = "some" /\ Deref(root, r.ref) # JNull
    THEN ValueLine(Deref(root, r.ref), terminal)
    ELSE SentinelLine

\* Lines 117-127: what run prints for the resolver's answer.
SelectedLine(root, r, terminal) ==
    IF r.tag = "some" THEN ValueLine(Deref(root, r.ref), terminal) ELSE SentinelLine

\* main returning: the status of a `Result<()>`.
ExitSuccess == 0
ExitFailure == 1
ExitStatus(r) == IF r.ok THEN ExitSuccess ELSE ExitFailure

\* The inputs of a run.
RunTexts ==
    { Text("", "StrictAB", ""), Text(" ", "NullField", "\n"),
      Text("", "BareKeys", ""), Text(" ", "Empty", "\n") }

RunSources == {Readable(t) : t \in RunTexts} \cup
              {Unreadable("stream did not contain valid UTF-8")}

RunPaths ==
    { <<"a">>, <<"s">>, <<"x">>, <<>>,
      <<"a", ".", "b", "[", "2", "]">>, <<"a", ".", "b", "[", "3", "]">> }

InitRun ==
    /\ HttpIdle
    /\ text \in {NoArg} \cup {Arg(t) : t \in RunTexts}
    /\ file \in {NoArg, Arg("data.json")}
    /\ use_json5 \in BOOLEAN
    /\ path \in RunPaths
    /\ disk \in RunSources
    /\ stdin \in RunSources
    /\ tty \in BOOLEAN
    /\ rpc = "title" /\ stdout = <<>> /\ ret = Pending /\ exit_code = Running
    /\ ipc = "idle" /\ fileReads = 0 /\ stdinReads = 0 /\ raw = Err("")
    /\ input = Text("", "Empty", "") /\ ppc = "idle"
    /\ strictCalls = 0 /\ json5Calls = 0 /\ parsed = Err("")
    /\ value = JNull /\ segs = <<>> /\ nseg = 0 /\ cur = <<>> /\ pc = "idle"
    /\ result = None

\* Lines 112 and 114: the title is printed and get_input is called.
PrintTitle ==
    /\ rpc = "title"
    /\ stdout' = Append(stdout, TitleLine)
    /\ rpc' = "input"
    /\ ipc' = "start"
    /\ UNCHANGED <<text, file, disk, stdin, fileReads, stdinReads, raw>>
    /\ UNCHANGED <<tty, ret, exit_code, pathVars, parseVars, httpVars>>

\* Line 114: `?` on a failed read.
ReadFailed ==
    /\ rpc = "input" /\ ipc = "done" /\ ~raw.ok
    /\ ret' = Err(raw.err)
    /\ rpc' = "returned"
    /\ UNCHANGED <<tty, stdout, exit_code, pathVars, parseVars, inputVars, httpVars>>

\* Line 115: parse_json is called with the trimmed text.
CallParse ==
    /\ rpc = "input" /\ ipc = "done" /\ raw.ok
    /\ input' = Trim(raw.val)
    /\ ppc' = "strict"
    /\ rpc' = "parse"
    /\ UNCHANGED <<use_json5, strictCalls, json5Calls, parsed>>
    /\ UNCHANGED <<tty, stdout, ret, exit_code, pathVars, inputVars, httpVars>>

\* Line 115: `?` on a failed parse.
ParseFailed ==
    /\ rpc = "parse" /\ ppc = "done" /\ ~parsed.ok
    /\ ret' = parsed
    /\ rpc' = "returned"
    /\ UNCHANGED <<tty, stdout, exit_code, pathVars, parseVars, inputVars, httpVars>>

\* Line 117: get_by_path is called with the parsed document.
CallSelect ==
    /\ rpc = "parse" /\ ppc = "done" /\ parsed.ok
    /\ value' = parsed.val
    /\ segs' = Split(path)
    /\ nseg' = 0 /\ cur' = <<>> /\ pc' = "loop" /\ result' = None
    /\ rpc' = "select"
    /\ UNCHANGED <<path, tty, stdout, ret, exit_code, parseVars, inputVars, httpVars>>

\* Lines 117-128: the answer is printed and run returns Ok(()).
PrintSelected ==
    /\ rpc = "select" /\ pc = "done"
    /\ stdout' = Append(stdout, SelectedLine(value, result, tty))
    /\ ret' = Ok(<<>>)
    /\ rpc' = "returned"
    /\ UNCHANGED <<tty, exit_code, pathVars, parseVars, inputVars, httpVars>>

\* main.rs:58 and the return from main.
Exit ==
    /\ rpc = "returned"
    /\ exit_code' = ExitStatus(ret)
    /\ rpc' = "exited"
    /\ UNCHANGED <<tty, stdout, ret, pathVars, parseVars, inputVars, httpVars>>

NextRun ==
    \/ PrintTitle
    \/ ReadFile
    \/ UseText
    \/ ReadStdin
    \/ ReadFailed
    \/ CallParse
    \/ TryStrict
    \/ TryJson5
    \/ ParseFailed
    \/ CallSelect
    \/ StepEmptySegment
    \/ StepIndexSegment
    \/ StepFieldSegment
    \/ ReturnSome
    \/ PrintSelected
    \/ Exit

SpecRun == InitRun /\ [][NextRun]_vars

(***************************************************************************)
(* Properties of json_select::run                                          *)
(***************************************************************************)
\* What run prints after the title.
AfterTitle == SubSeq(stdout, 2, Len(stdout))

\* C11: once the input has been read and parsed, a path that resolves to
\* "not found" makes run print the sentinel (null) and the process exit
\* with status 0; a found value, a found null among them, is printed as its
\* JSON text, which is never the sentinel's, and the exit status is 0 too; a
\* failed read or a failed parse makes the process exit with a non-zero
\* status, and neither a value nor the sentinel is printed.  Nothing but the
\* title is printed before the lookup has returned.
C11_NotFoundIsSuccess ==
    /\ stdout # <<>> => stdout[1] = TitleLine
    /\ AfterTitle # <<>> => raw.ok /\ parsed.ok /\ pc = "done"
    /\ rpc = "exited" =>
        IF raw.ok /\ parsed.ok
        THEN LET found == GetByPath(parsed.val, path)
             IN  /\ exit_code = ExitSuccess
                 /\ ret.ok
                 /\ Len(AfterTitle) = 1
                 /\ found.tag = "none" => AfterTitle[1] = SentinelLine
                 /\ found.tag = "some" =>
                      /\ AfterTitle[1].text = Pretty(Deref(parsed.val, found.ref), 0)
                      /\ AfterTitle[1].text # SentinelLine.text
                      /\ Deref(parsed.val, found.ref) = JNull =>
                           AfterTitle[1].text = "null"
        ELSE /\ exit_code # ExitSuccess
             /\ ~ret.ok
             /\ AfterTitle = <<>>

\* {"a":null,"s":"(null)"} has been read and parsed, the path x has found
\* nothing, the sentinel is printed and the process has exited with 0.
C11_Witness ==
    /\ rpc = "exited"
    /\ raw.ok /\ parsed = Ok(ValueNullField)
    /\ path = <<"x">>
    /\ result = None
    /\ stdout = <<TitleLine, SentinelLine>>
    /\ exit_code = ExitSuccess

=============================================================================
